---- MODULE Spec2Model ----
(***************************************************************************)
(* Model of the background analysis pipeline of the TAHLEEL.ai backend:    *)
(*   - FrameService.extractFrames / runConcurrent (bounded fan-out with    *)
(*     per-unit retry), src/services/frameService.js                       *)
(*   - AnalysisController.processVideoBackground, progressCallback and     *)
(*     calculateOverallProgress, src/unnamed/part_001                      *)
(*   - the stage adapters of gpt4Service.js and claudeService.js, as far   *)
(*     as they decide control flow (what they return, whether they throw)  *)
(*                                                                         *)
(* One step of the model is one resumption of the JavaScript code: the     *)
(* code that runs from the completion of an awaited external call up to    *)
(* the next await.                                                         *)
(***************************************************************************)
EXTENDS Integers, Sequences, FiniteSets, TLC

(***************************************************************************)
(* Bounds of the model.                                                    *)
(***************************************************************************)
MaxDuration == 35      \* longest video, in seconds
MaxWorkers == 2        \* largest FRAME_EXTRACTION_CONCURRENCY tried
MaxUnits == 10         \* largest fan-out size fed to the progress formula
AggStep == 10          \* spacing of the progress values fed to the aggregator
MaxSockets == 2        \* connected socket.io clients
MaxRooms == 1          \* rooms a socket joins
MaxCancels == 1        \* cancel requests served
MaxStatusCalls == 2    \* status requests served
MaxRuns == 2           \* start and resume requests made
MaxTurns == 1          \* times the event loop leaves a running call for another

(***************************************************************************)
(* Program constants.                                                      *)
(***************************************************************************)
RETRY_LIMIT == 2
frameInterval == 10
CancelCleanupDelay == 5000
MONTHLY_QUOTA == 10

(***************************************************************************)
(* IEEE-754 double arithmetic, as far as the progress computations use it. *)
(* A non-negative double below 128 that is a multiple of 2^-58 is held as  *)
(* the integer x * 2^58, in four limbs of 20 bits, least significant       *)
(* first.  Every double met here is 0 or at least 2^-4, so it is a         *)
(* multiple of 2^-56 and the two further bits are guard bits.  Each        *)
(* operation computes the exact result and rounds it to 53 significant     *)
(* bits, ties to even, as the hardware does.                               *)
(***************************************************************************)
\* the element of a set of one element.  The({Op(v) : v \in {x}}) is Op(x)
\* with x evaluated once, before Op is applied, as JavaScript evaluates the
\* arguments of a call and the operands of an operation
The(S) == CHOOSE r \in S : TRUE

LimbBase == 2^20

BigZero == <<0, 0, 0, 0>>

\* the integer n (0 <= n < 2^13) as a double
BigOfInt(n) == <<0, 0, (n % 4) * (2^18), n \div 4>>

BigAdd(a, b) ==
  LET s1 == a[1] + b[1]
      s2 == a[2] + b[2] + (s1 \div LimbBase)
      s3 == a[3] + b[3] + (s2 \div LimbBase)
      s4 == a[4] + b[4] + (s3 \div LimbBase)
  IN  <<s1 % LimbBase, s2 % LimbBase, s3 % LimbBase, s4>>

\* a - b for a >= b
BigSub(a, b) ==
  LET d1 == a[1] - b[1]
      d2 == a[2] - b[2] - (IF d1 < 0 THEN 1 ELSE 0)
      d3 == a[3] - b[3] - (IF d2 < 0 THEN 1 ELSE 0)
      d4 == a[4] - b[4] - (IF d3 < 0 THEN 1 ELSE 0)
  IN  <<d1 % LimbBase, d2 % LimbBase, d3 % LimbBase, d4>>

BigMulSmall(a, k) ==
  LET p1 == a[1] * k
      p2 == a[2] * k + (p1 \div LimbBase)
      p3 == a[3] * k + (p2 \div LimbBase)
      p4 == a[4] * k + (p3 \div LimbBase)
  IN  <<p1 % LimbBase, p2 % LimbBase, p3 % LimbBase, p4>>

\* quotient and remainder of a by the small integer d
BigDivSmall(a, d) ==
  LET q4 == a[4] \div d
      n3 == (a[4] % d) * LimbBase + a[3]
      n2 == (n3 % d) * LimbBase + a[2]
      n1 == (n2 % d) * LimbBase + a[1]
  IN  [q |-> <<n1 \div d, n2 \div d, n3 \div d, q4>>, r |-> n1 % d]

RECURSIVE BitLen(_)
BitLen(n) == IF n = 0 THEN 0 ELSE 1 + The({BitLen(m) : m \in {n \div 2}})

BigLen(a) ==
  IF a[4] # 0 THEN 60 + BitLen(a[4])
  ELSE IF a[3] # 0 THEN 40 + BitLen(a[3])
  ELSE IF a[2] # 0 THEN 20 + BitLen(a[2])
  ELSE BitLen(a[1])

\* round the exact value a (plus a non-zero tail below 2^-58 when sticky)
\* to 53 significant bits, ties to even
RoundTo53(a, sticky) ==
  LET len == BigLen(a) IN
  IF len <= 53 THEN a
  ELSE LET shift == len - 53
           unit  == 2^shift
           low   == a[1] % unit
           half  == unit \div 2
           odd   == (a[1] \div unit) % 2 = 1
           up    == low > half \/ (low = half /\ (sticky \/ odd))
           trunc == <<a[1] - low, a[2], a[3], a[4]>>
       IN  IF up THEN BigAdd(trunc, <<unit, 0, 0, 0>>) ELSE trunc

\* n / d for integers n >= 0, d > 0 with n = 0 or n/d >= 2^-4
FDiv(n, d) ==
  The({RoundTo53(qr.q, qr.r # 0) :
         qr \in {BigDivSmall(BigOfInt(v), w) : v \in {n}, w \in {d}}})

\* x * k for a double x and a small integer k
FMulInt(x, k) ==
  The({RoundTo53(p, FALSE) : p \in {BigMulSmall(v, k) : v \in {x}}})

FAdd(x, y) ==
  The({RoundTo53(s, FALSE) : s \in {BigAdd(v, w) : v \in {x}, w \in {y}}})

FSub(x, y) ==
  The({RoundTo53(d, FALSE) : d \in {BigSub(v, w) : v \in {x}, w \in {y}}})

\* Math.round: the integer floor(x + 1/2), ties towards +infinity
MathRound(x) ==
  The({y[4] * 4 + (y[3] \div (2^18)) :
         y \in {BigAdd(v, <<0, 0, 2^17, 0>>) : v \in {x}}})

(***************************************************************************)
(* Stage names and the stage records of analysisState.                     *)
(***************************************************************************)
Stages == <<"frame_extraction", "gpt4_analysis", "claude_enhancement", "final_report">>

StageSet == {Stages[n] : n \in 1..Len(Stages)}

\* insertion order of the keys an analysisState.stages object can hold
KeyOrder == Stages \o <<"key_moments">>

StageIndex(s) == CHOOSE n \in 1..Len(KeyOrder) : KeyOrder[n] = s

InitialStages == [s \in StageSet |-> [status |-> "pending", progress |-> 0]]

NoUpdate == [stage |-> "none"]

\* Object.keys(stages), in insertion order
RECURSIVE KeysFrom(_, _)
KeysFrom(stages, n) ==
  IF n > Len(KeyOrder) THEN <<>>
  ELSE (IF KeyOrder[n] \in DOMAIN stages THEN <<KeyOrder[n]>> ELSE <<>>)
       \o KeysFrom(stages, n + 1)

ObjectKeys(stages) == KeysFrom(stages, 1)

(***************************************************************************)
(* AnalysisController.calculateOverallProgress                             *)
(***************************************************************************)
stageWeights ==
  [frame_extraction |-> 25, gpt4_analysis |-> 40,
   claude_enhancement |-> 25, final_report |-> 10]

\* stageWeights[stage] || 0
WeightOf(stage) == IF stage \in DOMAIN stageWeights THEN stageWeights[stage] ELSE 0

\* the forEach loop: totalProgress += (stageProgress * weight) / 100
RECURSIVE SumStages(_, _, _)
SumStages(stages, keys, totalProgress) ==
  IF keys = <<>> THEN totalProgress
  ELSE SumStages(stages, Tail(keys),
         FAdd(totalProgress,
              FDiv(stages[Head(keys)].progress * WeightOf(Head(keys)), 100)))

\* the body of calculateOverallProgress up to the final rounding
TotalProgress(stages, currentUpdate) ==
  LET totalProgress == SumStages(stages, ObjectKeys(stages), BigZero) IN
  IF currentUpdate # NoUpdate /\ WeightOf(currentUpdate.stage) # 0
  THEN LET currentWeight == WeightOf(currentUpdate.stage)
           previousProgress ==
             IF currentUpdate.stage \in DOMAIN stages
             THEN stages[currentUpdate.stage].progress ELSE 0
       IN  FAdd(FSub(totalProgress, FDiv(previousProgress * currentWeight, 100)),
                FDiv(currentUpdate.progress * currentWeight, 100))
  ELSE totalProgress

\* Math.floor: the integer part
MathFloor(x) == x[4] * 4 + (x[3] \div (2^18))

\* calculateOverallProgress with Math.floor in place of Math.round
calculateOverallProgressFloor(stages, currentUpdate) ==
  MathFloor(TotalProgress(stages, currentUpdate))

\* calculateOverallProgress counting the stage of the update only
calculateOverallProgressUpdateOnly(stages, currentUpdate) ==
  MathRound(TotalProgress(InitialStages, currentUpdate))

calculateOverallProgress(stages, currentUpdate) ==
  MathRound(The({TotalProgress(st, up) : st \in {stages}, up \in {currentUpdate}}))

\* Math.round((completed / total) * 100), the stage progress both fan-out
\* loops report (frameService.js:72, gpt4Service.js:124)
StageProgress(completed, total) == MathRound(FMulInt(FDiv(completed, total), 100))

(***************************************************************************)
(* FrameService.calculateFrameTimestamps                                   *)
(***************************************************************************)
RECURSIVE IntervalTimestamps(_, _)
IntervalTimestamps(time, duration) ==
  IF time < duration - 10
  THEN <<time>> \o IntervalTimestamps(time + frameInterval, duration)
  ELSE <<>>

calculateFrameTimestamps(duration) ==
  <<5>> \o IntervalTimestamps(frameInterval, duration)
        \o (IF duration > 20 THEN <<duration - 10>> ELSE <<>>)

(***************************************************************************)
(* State.                                                                  *)
(***************************************************************************)
VARIABLES
  pc,               \* where processVideoBackground is suspended
  concurrency,      \* MAX_CONCURRENT_FRAMES of this process
  frameTimestamps,  \* extractFrames: the timestamps, <<>> before they are known
  i,                \* runConcurrent: the shared index i
  workers,          \* runConcurrent: per worker, the task awaited and whether it left its loop
  tasks,            \* per task closure: status, attempt, error of the last failed attempt
  extractedFrames,  \* extractFrames: the result array, Hole where nothing was assigned
  completed,        \* extractFrames: the completed counter
  analysisState,    \* processVideoBackground: the job's state object
  g,                \* analyzeFrames: the loop index i
  gpt4Analysis,     \* analyzeFrames: frameAnalyses
  events,           \* what io.to(room).emit sent, in order
  progressCalls,    \* the updates progressCallback was called with, in order
  slotWrites,       \* per slot of extractedFrames: the workers that assigned it, in order
  invoked,          \* per stage: how many times its adapter was called
  resultDocs,       \* the documents saved as results/<videoId>/analysis.json, in order
  failure,          \* what the catch block of processVideoBackground caught
  aggStages,        \* aggregator check: the stage records given
  aggUpdate,        \* aggregator check: the update given
  aggUnits,         \* aggregator check: <<completed, total>> behind the update
  aggResult,        \* aggregator check: the value returned
  emitted,          \* socket.io: every emit of the server, with its room, in order
  inbox,            \* per socket: the events it received, in order
  rooms,            \* per socket: the rooms it joined
  joinedAt,         \* per socket and room: how many emits preceded the join
  responses,        \* the HTTP responses sent, in order
  timers,           \* the cleanup timers set and not yet fired
  frameFiles,       \* storage: the frames/<videoId>/ files of the job
  errorLog,         \* what console.error logged about cleanups, in order
  statusLog,        \* per status request served: what storage held, and the response
  videoId,          \* processVideoBackground: the videoId it was called with
  matchMetadata,    \* processVideoBackground: the matchMetadata it was called with
  resumeFromStage,  \* the resumeFromStage of the request body that launched the call
  parked,           \* the other calls of processVideoBackground, each with its locals
  starting,         \* the POST /start handlers that counted the quota and await storage
  turns             \* how often the event loop left a running call for another one

\* the arguments of the call of processVideoBackground that is followed, the
\* calls beside it and the requests on their way: no step of a call changes them
jobVars == <<videoId, matchMetadata, resumeFromStage, parked, starting, turns>>

pipelineVars ==
  <<pc, concurrency, frameTimestamps, i, workers, tasks, extractedFrames, completed,
    analysisState, g, gpt4Analysis, events, progressCalls, slotWrites, invoked,
    resultDocs, failure, jobVars>>

aggVars == <<aggStages, aggUpdate, aggUnits, aggResult>>

\* what the pipeline never touches
quietVars == <<rooms, joinedAt, responses, errorLog, statusLog>>

serverVars == <<emitted, inbox, quietVars, timers, frameFiles>>

vars == <<pipelineVars, aggVars, serverVars>>

Hole == [hole |-> TRUE]

\* null; the values it stands in for are tuples
Null == <<>>

NoFailure == [at |-> "none"]

Min(S) == CHOOSE x \in S : \A y \in S : x <= y

\* durations (seconds) ffprobe may report
Durations == {d \in 15..MaxDuration : d % 10 = 5}

\* the duration of the video of the job the server is followed with
ServerDurations == {Min(Durations)}

\* values of MAX_CONCURRENT_FRAMES: parseInt(env) || 8 is any non-zero integer
Budgets == {-1} \cup (1..MaxWorkers)

\* err.message of the error that ends attempt number `attempt` of task k;
\* the errors of different attempts are different errors
AttemptError(k, attempt) == <<"attempt failed", k, attempt>>

\* array.length of a JavaScript array: one more than the largest assigned index
ArrayLength(arr) ==
  IF \A k \in DOMAIN arr : arr[k] = Hole THEN 0
  ELSE CHOOSE k \in DOMAIN arr : arr[k] # Hole /\ \A j \in DOMAIN arr : j > k => arr[j] = Hole

(***************************************************************************)
(* socket.io: rooms and emitting to a room.                                *)
(***************************************************************************)
Sockets == 1..MaxSockets

\* the video ids requests and clients name
VideoIds == {"v1", "v2"}

\* a field the request body does not have
Undefined == "undefined"

\* the users that submit videos
Users == {"u1"}

\* matchMetadata as the frontend sends it for user u
MetadataOf(u) == [userId |-> u]

\* matchMetadata: {} of a resume request
NoMetadata == [userId |-> Undefined]

\* `analysis-${videoId}`
Room(v) == <<"analysis", v>>

\* every socket receives every event, whatever its rooms (io.emit)
MembersEverySocket(room) == Sockets

\* the sockets that are in the room when the server emits to it
Members(room) == {s \in Sockets : room \in rooms[s]}

\* io.to(room).emit for each event of es, in order
Broadcast(room, es) ==
  /\ emitted' = emitted \o [n \in 1..Len(es) |-> [room |-> room, event |-> es[n]]]
  /\ inbox' = [s \in Sockets |->
                 IF s \in Members(room) THEN inbox[s] \o es ELSE inbox[s]]

\* an emit of processVideoBackground, to the room of its job
Emit(es) ==
  /\ events' = events \o es
  /\ Broadcast(Room(videoId), es)

(***************************************************************************)
(* processVideoBackground: emitting, the progress callback, the catch.     *)
(***************************************************************************)
\* io.to(room).emit('analysis-progress', analysisState)
ProgressEvent(state) == [type |-> "analysis-progress", payload |-> state]

\* the progressCallback closure: the state it leaves, which it then emits
progressCallback(state, update) ==
  The({[st EXCEPT
          !.currentStage = up.stage,
          !.progress = calculateOverallProgress(st.stages, up),
          !.stages = (up.stage :>
                        [status |-> "processing", progress |-> up.progress,
                         message |-> up.message]) @@ st.stages] :
         st \in {state}, up \in {update}})

\* errorState as the outer catch of startAnalysisJob builds it
ErrorEventInitialization(state, message) ==
  [type |-> "analysis-error",
   payload |-> [status |-> "failed", error |-> message,
                currentStage |-> "initialization"]]

\* errorState of the catch block
ErrorEvent(state, message) ==
  [type |-> "analysis-error",
   payload |-> [status |-> "failed", error |-> message,
                currentStage |-> state.currentStage]]

\* a catch block that logs the error and emits nothing
CatchSilent(at, state, message) ==
  /\ UNCHANGED <<events, emitted, inbox>>
  /\ failure' = [at |-> at, error |-> message]
  /\ pc' = "failed"

\* the catch block of processVideoBackground, entered from position `at`
Catch(at, state, message) ==
  /\ Emit(<<ErrorEvent(state, message)>>)
  /\ failure' = [at |-> at, error |-> message]
  /\ pc' = "failed"

(***************************************************************************)
(* FrameService.runConcurrent and the task closures of extractFrames.      *)
(***************************************************************************)
\* one worker too many
WorkerIdsOneMore(n) == 1..n + 1

\* Array.from({ length: concurrency }): one worker per index
WorkerIds(n) == 1..n

\* attempt > RETRY_LIMIT, the test of the catch branch
IsFinalAttempt(attempt) == attempt > RETRY_LIMIT

\* the retry loop stopping one attempt early
LoopContinuesShort(attempt) == attempt <= RETRY_LIMIT

\* attempt <= RETRY_LIMIT + 1, the test of the retry loop
LoopContinues(attempt) == attempt <= RETRY_LIMIT + 1

\* results stored in completion order (extractedFrames.push)
SlotInCompletionOrder(k, done) == done + 1

\* the index extractedFrames is assigned at by task k (the model counts from 1)
SlotOf(k, done) == k

\* one worker's loop from its top to its next await: take the next index and
\* start that task (its first attempt), or leave the loop
WorkerLoop(rs, w) ==
  IF rs.i < Len(rs.tasks)
  THEN [rs EXCEPT
          !.i = @ + 1,
          !.workers[w] = [idx |-> rs.i + 1, exited |-> FALSE],
          !.tasks[rs.i + 1] = [status |-> "attempting", attempt |-> 1, lastError |-> Null]]
  ELSE [rs EXCEPT !.workers[w] = [idx |-> 0, exited |-> TRUE]]

\* the map over the workers: each runs, in index order, up to its first await
RECURSIVE SpawnWorkers(_, _, _)
SpawnWorkers(rs, w, last) ==
  IF w > last THEN rs ELSE SpawnWorkers(WorkerLoop(rs, w), w + 1, last)

\* the synchronous part of runConcurrent(tasks, concurrency), for n tasks
runConcurrent(n, budget) ==
  SpawnWorkers(
    [i |-> 0,
     workers |-> [w \in WorkerIds(budget) |-> [idx |-> 0, exited |-> FALSE]],
     tasks |-> [k \in 1..n |-> [status |-> "pending", attempt |-> 0, lastError |-> Null]]],
    1, Cardinality(WorkerIds(budget)))

\* Promise.all over the workers has resolved
AllWorkersSettled == \A w \in DOMAIN workers : workers[w].exited

Running(w) ==
  /\ pc = "s1_run"
  /\ w \in DOMAIN workers
  /\ ~workers[w].exited

(***************************************************************************)
(* Initial state: the job was submitted and its background run scheduled;  *)
(* analysisState holds what processVideoBackground constructs on entry.    *)
(***************************************************************************)
NoAgg == [s \in {} |-> 0]

\* no room joined yet
NeverJoined == [r \in {} |-> 0]

\* the response of startAnalysisJob
JobStarted(v) ==
  [route |-> "start", videoId |-> v, code |-> 200,
   body |-> [success |-> TRUE, jobStarted |-> TRUE, message |-> "Analysis job started."]]

Init ==
  /\ pc = "start"
  /\ concurrency \in Budgets
  /\ frameTimestamps = <<>>
  /\ i = 0
  /\ workers = <<>>
  /\ tasks = <<>>
  /\ extractedFrames = <<>>
  /\ completed = 0
  /\ analysisState =
       [status |-> "processing", currentStage |-> "initialization", progress |-> 0,
        stages |-> InitialStages]
  /\ g = 0
  /\ gpt4Analysis = <<>>
  /\ events = <<>>
  /\ progressCalls = <<>>
  /\ slotWrites = <<>>
  /\ invoked = [s \in StageSet |-> 0]
  /\ resultDocs = <<>>
  /\ failure = NoFailure
  /\ emitted = <<>>
  /\ inbox = [s \in Sockets |-> <<>>]
  /\ rooms = [s \in Sockets |-> {}]
  /\ joinedAt = [s \in Sockets |-> NeverJoined]
  /\ responses = <<JobStarted("v1")>>
  /\ timers = <<>>
  /\ frameFiles = {}
  /\ errorLog = <<>>
  /\ statusLog = <<>>
  /\ videoId = "v1"
  /\ matchMetadata = MetadataOf("u1")
  /\ resumeFromStage = Undefined
  /\ parked = <<>>
  /\ starting = <<>>
  /\ turns = 0
  /\ aggStages = NoAgg
  /\ aggUpdate = NoUpdate
  /\ aggUnits = <<0, 0>>
  /\ aggResult = 0

(***************************************************************************)
(* Stage 1: frame extraction.                                              *)
(***************************************************************************)
\* processVideoBackground from its entry to the first await of extractFrames
StartPipeline ==
  /\ pc = "start"
  /\ LET s1 == [analysisState EXCEPT !.currentStage = "frame_extraction"] IN
       /\ analysisState' = s1
       /\ Emit(<<ProgressEvent(analysisState), ProgressEvent(s1)>>)
  /\ invoked' = [invoked EXCEPT !["frame_extraction"] = @ + 1]
  /\ pc' = "s1_url"
  /\ UNCHANGED <<concurrency, jobVars, frameTimestamps, i, workers, tasks, extractedFrames,
                 completed, g, gpt4Analysis, progressCalls, slotWrites, resultDocs,
                 failure, aggVars, quietVars, timers, frameFiles>>

\* gcsService.generateSignedDownloadUrl resolved
SignedUrlReturns ==
  /\ pc = "s1_url"
  /\ pc' = "s1_probe"
  /\ UNCHANGED <<concurrency, jobVars, frameTimestamps, i, workers, tasks, extractedFrames,
                 completed, analysisState, g, gpt4Analysis, events, emitted, inbox, progressCalls,
                 slotWrites, invoked, resultDocs, failure, aggVars, quietVars, timers, frameFiles>>

\* generateSignedDownloadUrl rejected: extractFrames rethrows, the pipeline catches
SignedUrlFails ==
  /\ pc = "s1_url"
  /\ Catch("s1_url", analysisState, "Frame extraction failed: signed url")
  /\ UNCHANGED <<concurrency, jobVars, frameTimestamps, i, workers, tasks, extractedFrames,
                 completed, analysisState, g, gpt4Analysis, progressCalls, slotWrites,
                 invoked, resultDocs, aggVars, quietVars, timers, frameFiles>>

\* getVideoDuration resolved with d: the timestamps are computed, the task
\* closures built and runConcurrent runs every worker up to its first await
DurationReturns(d) ==
  /\ pc = "s1_probe"
  /\ LET ts == calculateFrameTimestamps(d)
         rs == runConcurrent(Len(ts), concurrency)
     IN  /\ frameTimestamps' = ts
         /\ i' = rs.i
         /\ workers' = rs.workers
         /\ tasks' = rs.tasks
         /\ extractedFrames' = [k \in 1..Len(ts) |-> Hole]
         /\ slotWrites' = [k \in 1..Len(ts) |-> <<>>]
  /\ pc' = "s1_run"
  /\ UNCHANGED <<concurrency, jobVars, completed, analysisState, g, gpt4Analysis, events, emitted, inbox,
                 progressCalls, invoked, resultDocs, failure, aggVars, quietVars, timers, frameFiles>>

\* getVideoDuration rejected
DurationFails ==
  /\ pc = "s1_probe"
  /\ Catch("s1_probe", analysisState, "Frame extraction failed: duration")
  /\ UNCHANGED <<concurrency, jobVars, frameTimestamps, i, workers, tasks, extractedFrames,
                 completed, analysisState, g, gpt4Analysis, progressCalls, slotWrites,
                 invoked, resultDocs, aggVars, quietVars, timers, frameFiles>>

\* frames/${videoId}/frame_<k>.jpg, the file uploadFrame saves
FrameFile(k) == <<"frame", videoId, k>>

\* the record a successful attempt of task k stores
FrameRecord(k) ==
  [frameNumber |-> k, timestamp |-> frameTimestamps[k],
   fileName |-> FrameFile(k), url |-> <<"url", k>>, error |-> Null]

\* the record the final failed attempt of task k stores
FailureRecord(k, err) ==
  [frameNumber |-> k, timestamp |-> frameTimestamps[k],
   fileName |-> Null, url |-> Null, error |-> err]

\* the update a task reports after its success
FrameUpdate(done, total) ==
  [stage |-> "frame_extraction", progress |-> StageProgress(done, total),
   message |-> <<"Extracted frame", done, total>>]

\* extractFrameAtTimestamp, uploadFrame and getFrameUrl all resolved for the
\* task worker w awaits: the slot is assigned, the callback called, the task
\* returns and the worker goes round its loop
AttemptSucceeds(w) ==
  /\ Running(w)
  /\ \E update \in {FrameUpdate(completed + 1, Len(frameTimestamps))},
        state \in {progressCallback(analysisState,
                                    FrameUpdate(completed + 1, Len(frameTimestamps)))} :
     LET k == workers[w].idx
         slot == SlotOf(k, completed)
         rs == WorkerLoop([i |-> i, workers |-> workers,
                           tasks |-> [tasks EXCEPT ![k].status = "ok"]], w)
     IN  /\ tasks[k].status = "attempting"
         /\ extractedFrames' = [extractedFrames EXCEPT ![slot] = FrameRecord(k)]
         /\ frameFiles' = frameFiles \cup {FrameFile(k)}
         /\ slotWrites' = [slotWrites EXCEPT ![slot] = Append(@, w)]
         /\ completed' = completed + 1
         /\ progressCalls' = Append(progressCalls, update)
         /\ analysisState' = state
         /\ Emit(<<ProgressEvent(state)>>)
         /\ i' = rs.i
         /\ workers' = rs.workers
         /\ tasks' = rs.tasks
  /\ UNCHANGED <<pc, concurrency, jobVars, frameTimestamps, g, gpt4Analysis, invoked,
                 resultDocs, failure, aggVars, quietVars, timers>>

\* a task whose failure ends the loop of its worker
TaskLoopStepAbort(rs, w, k) ==
  IF LoopContinues(rs.tasks[k].attempt + 1)
  THEN [rs EXCEPT !.tasks[k].status = "attempting", !.tasks[k].attempt = @ + 1]
  ELSE [rs EXCEPT !.tasks[k].status = "failed",
                  !.workers[w] = [idx |-> 0, exited |-> TRUE]]

\* the for loop of a task closure after a failed attempt: attempt++, then
\* either the next attempt starts or the loop ends, the task returns and
\* its worker goes round its own loop
TaskLoopStep(rs, w, k) ==
  IF LoopContinues(rs.tasks[k].attempt + 1)
  THEN [rs EXCEPT !.tasks[k].status = "attempting", !.tasks[k].attempt = @ + 1]
  ELSE WorkerLoop([rs EXCEPT !.tasks[k].status = "failed"], w)

\* one of the three calls of the attempt rejected, getFrameUrl after the
\* frame was uploaded or a call before that: on the final attempt the
\* failure record is stored and the loop goes on at once, otherwise the
\* task waits before it retries
AttemptFails(w, uploaded) ==
  /\ Running(w)
  /\ frameFiles' = IF uploaded THEN frameFiles \cup {FrameFile(workers[w].idx)}
                   ELSE frameFiles
  /\ LET k == workers[w].idx
         err == AttemptError(k, tasks[k].attempt)
         slot == SlotOf(k, completed)
         rs == TaskLoopStep([i |-> i, workers |-> workers,
                             tasks |-> [tasks EXCEPT ![k].lastError = err]], w, k)
     IN  /\ tasks[k].status = "attempting"
         /\ IF IsFinalAttempt(tasks[k].attempt)
            THEN /\ extractedFrames' = [extractedFrames EXCEPT ![slot] = FailureRecord(k, err)]
                 /\ slotWrites' = [slotWrites EXCEPT ![slot] = Append(@, w)]
                 /\ i' = rs.i
                 /\ workers' = rs.workers
                 /\ tasks' = rs.tasks
            ELSE /\ tasks' = [tasks EXCEPT ![k].status = "backoff", ![k].lastError = err]
                 /\ UNCHANGED <<extractedFrames, slotWrites, i, workers>>
  /\ UNCHANGED <<pc, concurrency, jobVars, frameTimestamps, completed, analysisState, g,
                 gpt4Analysis, events, emitted, inbox, progressCalls, invoked,
                 resultDocs, failure, aggVars, quietVars, timers>>

\* the setTimeout(1000 * attempt) of a failed attempt fired: the loop goes on
BackoffElapsed(w) ==
  /\ Running(w)
  /\ LET k == workers[w].idx
         rs == TaskLoopStep([i |-> i, workers |-> workers, tasks |-> tasks], w, k)
     IN  /\ tasks[k].status = "backoff"
         /\ i' = rs.i
         /\ workers' = rs.workers
         /\ tasks' = rs.tasks
  /\ UNCHANGED <<pc, concurrency, jobVars, frameTimestamps, extractedFrames, completed,
                 analysisState, g, gpt4Analysis, events, emitted, inbox, progressCalls, slotWrites,
                 invoked, resultDocs, failure, aggVars, quietVars, timers, frameFiles>>

(***************************************************************************)
(* Stage 2: GPT-4 analysis of the frames (gpt4Service.analyzeFrames).      *)
(***************************************************************************)
\* a stage marked completed with the progress its last update left
MarkCompletedStatusOnly(state, stage) ==
  [state EXCEPT !.stages[stage] = [status |-> "completed", progress |-> @.progress]]

\* analysisState.stages.<stage> = { status: 'completed', progress: 100 }
MarkCompleted(state, stage) ==
  [state EXCEPT !.stages[stage] = [status |-> "completed", progress |-> 100]]

\* currentStage = stage, then the stage-start snapshot is emitted
EnterStage(state, stage) == [state EXCEPT !.currentStage = stage]

\* Promise.all of runConcurrent resolved: extractFrames returns the array,
\* the pipeline marks stage 1 completed, checks frames.length, enters stage
\* 2 and analyzeFrames runs to the await of its first analyzeFrame call
RunnerResolves ==
  /\ pc = "s1_run"
  /\ AllWorkersSettled
  /\ LET s1 == MarkCompleted(analysisState, "frame_extraction")
         s2 == EnterStage(s1, "gpt4_analysis")
     IN  IF ArrayLength(extractedFrames) = 0
         THEN /\ analysisState' = s1
              /\ Catch("s1_check", s1, "No frames extracted from video")
              /\ UNCHANGED invoked
         ELSE /\ analysisState' = s2
              /\ invoked' = [invoked EXCEPT !["gpt4_analysis"] = @ + 1]
              /\ IF extractedFrames[1] = Hole
                 THEN Catch("s2_frame", s2, "GPT-4 Vision batch analysis failed")
                 ELSE /\ Emit(<<ProgressEvent(s2)>>)
                      /\ pc' = "s2_frame"
                      /\ UNCHANGED failure
  /\ UNCHANGED <<concurrency, jobVars, frameTimestamps, i, workers, tasks, extractedFrames,
                 completed, g, gpt4Analysis, progressCalls, slotWrites, resultDocs,
                 aggVars, quietVars, timers, frameFiles>>

\* analyzeFrames reporting its progress under the stage of extractFrames
AnalysisUpdateFrameStage(done, total) ==
  [stage |-> "frame_extraction", progress |-> StageProgress(done, total),
   message |-> <<"Analyzed frame", done, total>>]

\* the update analyzeFrames reports after a frame
AnalysisUpdate(done, total) ==
  [stage |-> "gpt4_analysis", progress |-> StageProgress(done, total),
   message |-> <<"Analyzed frame", done, total>>]

\* analyzeFrame resolved (it never rejects: on an error of the provider it
\* returns a fallback analysis): the analysis is pushed, the callback
\* called and the loop waits for its rate-limit delay
FrameAnalyzed ==
  /\ pc = "s2_frame"
  /\ \E update \in {AnalysisUpdate(g + 1, ArrayLength(extractedFrames))},
        state \in {progressCallback(analysisState,
                                    AnalysisUpdate(g + 1, ArrayLength(extractedFrames)))} :
     LET frame == extractedFrames[g + 1]
     IN  /\ gpt4Analysis' = Append(gpt4Analysis,
                              [frameNumber |-> frame.frameNumber,
                               timestamp |-> frame.timestamp])
         /\ progressCalls' = Append(progressCalls, update)
         /\ analysisState' = state
         /\ Emit(<<ProgressEvent(state)>>)
  /\ pc' = "s2_delay"
  /\ UNCHANGED <<concurrency, jobVars, frameTimestamps, i, workers, tasks, extractedFrames,
                 completed, g, slotWrites, invoked, resultDocs, failure, aggVars, quietVars, timers, frameFiles>>

\* the delay elapsed: i++, then either the next frame is analyzed or
\* analyzeFrames returns, the pipeline marks stage 2 completed and awaits
\* generateMatchSummary
DelayElapsed ==
  /\ pc = "s2_delay"
  /\ g' = g + 1
  /\ IF g + 1 < ArrayLength(extractedFrames)
     THEN IF extractedFrames[g + 2] = Hole
          THEN /\ Catch("s2_frame", analysisState, "GPT-4 Vision batch analysis failed")
               /\ UNCHANGED analysisState
          ELSE /\ pc' = "s2_frame"
               /\ UNCHANGED <<analysisState, events, emitted, inbox, failure>>
     ELSE /\ analysisState' = MarkCompleted(analysisState, "gpt4_analysis")
          /\ pc' = "s2_summary"
          /\ UNCHANGED <<events, emitted, inbox, failure>>
  /\ UNCHANGED <<concurrency, jobVars, frameTimestamps, i, workers, tasks, extractedFrames,
                 completed, gpt4Analysis, progressCalls, slotWrites, invoked,
                 resultDocs, aggVars, quietVars, timers, frameFiles>>

\* generateMatchSummary resolved: stage 3 is entered and
\* enhanceTacticalAnalysis awaited
SummaryReturns ==
  /\ pc = "s2_summary"
  /\ LET s1 == EnterStage(analysisState, "claude_enhancement") IN
       /\ analysisState' = s1
       /\ Emit(<<ProgressEvent(s1)>>)
  /\ invoked' = [invoked EXCEPT !["claude_enhancement"] = @ + 1]
  /\ pc' = "s3_enhance"
  /\ UNCHANGED <<concurrency, jobVars, frameTimestamps, i, workers, tasks, extractedFrames,
                 completed, g, gpt4Analysis, progressCalls, slotWrites, resultDocs,
                 failure, aggVars, quietVars, timers, frameFiles>>

\* generateMatchSummary rejected (it rethrows the provider's error)
SummaryFails ==
  /\ pc = "s2_summary"
  /\ Catch("s2_summary", analysisState, "Match summary generation failed")
  /\ UNCHANGED <<concurrency, jobVars, frameTimestamps, i, workers, tasks, extractedFrames,
                 completed, analysisState, g, gpt4Analysis, progressCalls, slotWrites,
                 invoked, resultDocs, aggVars, quietVars, timers, frameFiles>>

(***************************************************************************)
(* Stage 3 and 4: Claude enhancement and the final report.                 *)
(***************************************************************************)
\* enhanceTacticalAnalysis resolved (with the enhancement or with its
\* fallback): stage 3 is marked completed, stage 4 entered and
\* generateFinalReport awaited
EnhancementReturns ==
  /\ pc = "s3_enhance"
  /\ LET s1 == EnterStage(MarkCompleted(analysisState, "claude_enhancement"),
                          "final_report") IN
       /\ analysisState' = s1
       /\ Emit(<<ProgressEvent(s1)>>)
  /\ invoked' = [invoked EXCEPT !["final_report"] = @ + 1]
  /\ pc' = "s4_report"
  /\ UNCHANGED <<concurrency, jobVars, frameTimestamps, i, workers, tasks, extractedFrames,
                 completed, g, gpt4Analysis, progressCalls, slotWrites, resultDocs,
                 failure, aggVars, quietVars, timers, frameFiles>>

\* enhanceTacticalAnalysis rejected: its catch block builds the fallback
\* from the GPT-4 data and throws when that data is malformed
EnhancementFails ==
  /\ pc = "s3_enhance"
  /\ Catch("s3_enhance", analysisState, "enhancement fallback failed")
  /\ UNCHANGED <<concurrency, jobVars, frameTimestamps, i, workers, tasks, extractedFrames,
                 completed, analysisState, g, gpt4Analysis, progressCalls, slotWrites,
                 invoked, resultDocs, aggVars, quietVars, timers, frameFiles>>

\* the delay of the cleanup timer: TEMP_CLEANUP_DELAY_MINUTES, or 30 minutes
TempCleanupDelay == 30 * 60 * 1000

\* setTimeout(async () => { ... cleanupTempFiles(v) ... }, delay)
CleanupTimer(v, delay, from) ==
  [videoId |-> v, delay |-> delay, from |-> from, phase |-> "set", files |-> {}]

\* the payload of analysis-completed
CompletedEvent(result) ==
  [type |-> "analysis-completed",
   payload |-> [status |-> "completed", result |-> result]]

\* completeAnalysis, the result document
CompleteAnalysis(state) ==
  [videoId |-> videoId,
   matchMetadata |-> matchMetadata,
   frame_extraction |-> [total_frames |-> ArrayLength(extractedFrames),
                         frame_details |-> extractedFrames],
   gpt4_analysis |-> gpt4Analysis,
   analysis_state |-> [state EXCEPT !.status = "completed"]]

\* generateFinalReport resolved (it never rejects: its catch block builds
\* the report itself): stage 4 is marked completed, the result document
\* compiled and uploadAnalysisResult awaited
ReportReturns ==
  /\ pc = "s4_report"
  /\ analysisState' = MarkCompleted(analysisState, "final_report")
  /\ pc' = "s4_upload"
  /\ UNCHANGED <<concurrency, jobVars, frameTimestamps, i, workers, tasks, extractedFrames,
                 completed, g, gpt4Analysis, events, emitted, inbox, progressCalls, slotWrites,
                 invoked, resultDocs, failure, aggVars, quietVars, timers, frameFiles>>

\* uploadAnalysisResult resolved: the document is in storage, the job is
\* marked completed with progress 100 and analysis-completed is emitted
UploadReturns ==
  /\ pc = "s4_upload"
  /\ resultDocs' = Append(resultDocs, CompleteAnalysis(analysisState))
  /\ analysisState' = [analysisState EXCEPT !.status = "completed", !.progress = 100]
  /\ timers' = Append(timers, CleanupTimer(videoId, TempCleanupDelay, "completed"))
  /\ Emit(<<CompletedEvent(CompleteAnalysis(analysisState))>>)
  /\ pc' = "done"
  /\ UNCHANGED <<concurrency, jobVars, frameTimestamps, i, workers, tasks, extractedFrames,
                 completed, g, gpt4Analysis, progressCalls, slotWrites, invoked,
                 failure, aggVars, quietVars, frameFiles>>

\* uploadAnalysisResult rejecting after the document was saved
UploadFailsAfterSave ==
  /\ pc = "s4_upload"
  /\ resultDocs' = Append(resultDocs, CompleteAnalysis(analysisState))
  /\ Catch("s4_upload", analysisState, "Failed to upload analysis result")
  /\ UNCHANGED <<concurrency, jobVars, frameTimestamps, i, workers, tasks, extractedFrames,
                 completed, analysisState, g, gpt4Analysis, progressCalls, slotWrites,
                 invoked, aggVars, quietVars, timers, frameFiles>>

\* uploadAnalysisResult rejected
UploadFails ==
  /\ pc = "s4_upload"
  /\ Catch("s4_upload", analysisState, "Failed to upload analysis result")
  /\ UNCHANGED <<concurrency, jobVars, frameTimestamps, i, workers, tasks, extractedFrames,
                 completed, analysisState, g, gpt4Analysis, progressCalls, slotWrites,
                 invoked, resultDocs, aggVars, quietVars, timers, frameFiles>>

Next ==
  \/ StartPipeline
  \/ SignedUrlReturns
  \/ SignedUrlFails
  \/ \E d \in Durations : DurationReturns(d)
  \/ DurationFails
  \/ \E w \in 1..MaxWorkers + 1 : AttemptSucceeds(w)
  \/ \E w \in 1..MaxWorkers + 1, uploaded \in BOOLEAN : AttemptFails(w, uploaded)
  \/ \E w \in 1..MaxWorkers + 1 : BackoffElapsed(w)
  \/ RunnerResolves
  \/ FrameAnalyzed
  \/ DelayElapsed
  \/ SummaryReturns
  \/ SummaryFails
  \/ EnhancementReturns
  \/ EnhancementFails
  \/ ReportReturns
  \/ UploadReturns
  \/ UploadFails

Spec == Init /\ [][Next]_vars

(***************************************************************************)
(* The aggregator on its own: calculateOverallProgress applied to stage    *)
(* records and updates drawn from bounded sets.                            *)
(***************************************************************************)
\* stored progress values tried
AggGrid == {0, 26, 40, 100}

\* progress values of the updates tried
AggProgress == {p \in 0..100 : p % AggStep = 0}

\* the stage records tried: the four stages of the pipeline, with or
\* without a record of a stage the weight table does not know
AggStageRecords ==
  LET weighted == {[s \in StageSet |-> [status |-> "processing", progress |-> f[s]]] :
                     f \in [StageSet -> AggGrid]}
      extra == [status |-> "processing", progress |-> 50]
  IN  weighted \cup {("key_moments" :> extra) @@ st : st \in weighted}

InitAgg ==
  /\ pc = "off"
  /\ concurrency = 1
  /\ frameTimestamps = <<>>
  /\ i = 0
  /\ workers = <<>>
  /\ tasks = <<>>
  /\ extractedFrames = <<>>
  /\ completed = 0
  /\ analysisState =
       [status |-> "processing", currentStage |-> "initialization", progress |-> 0,
        stages |-> InitialStages]
  /\ g = 0
  /\ gpt4Analysis = <<>>
  /\ events = <<>>
  /\ progressCalls = <<>>
  /\ slotWrites = <<>>
  /\ invoked = [s \in StageSet |-> 0]
  /\ resultDocs = <<>>
  /\ failure = NoFailure
  /\ emitted = <<>>
  /\ inbox = [s \in Sockets |-> <<>>]
  /\ rooms = [s \in Sockets |-> {}]
  /\ joinedAt = [s \in Sockets |-> NeverJoined]
  /\ responses = <<>>
  /\ timers = <<>>
  /\ frameFiles = {}
  /\ errorLog = <<>>
  /\ statusLog = <<>>
  /\ videoId = "v1"
  /\ matchMetadata = MetadataOf("u1")
  /\ resumeFromStage = Undefined
  /\ parked = <<>>
  /\ starting = <<>>
  /\ turns = 0
  /\ aggStages \in AggStageRecords
  /\ aggUpdate = NoUpdate
  /\ aggUnits = <<0, 0>>
  /\ aggResult = calculateOverallProgress(aggStages, NoUpdate)

\* calculateOverallProgress(stages, {stage, progress})
AggregateUpdate(stage, progress) ==
  /\ pc = "off"
  /\ aggUpdate = NoUpdate
  /\ aggUpdate' = [stage |-> stage, progress |-> progress, message |-> <<>>]
  /\ aggUnits' = <<0, 0>>
  /\ aggResult' = calculateOverallProgress(aggStages, aggUpdate')
  /\ UNCHANGED <<aggStages, pipelineVars, serverVars>>

\* calculateOverallProgress(stages, update) for the update a frame task
\* reports when `done` of `total` units are completed
AggregateUnits(done, total) ==
  /\ pc = "off"
  /\ aggUpdate = NoUpdate
  /\ aggUpdate' = FrameUpdate(done, total)
  /\ aggUnits' = <<done, total>>
  /\ aggResult' = calculateOverallProgress(aggStages, aggUpdate')
  /\ UNCHANGED <<aggStages, pipelineVars, serverVars>>

NextAgg ==
  \/ \E stage \in StageSet \cup {"key_moments"}, progress \in AggProgress :
       AggregateUpdate(stage, progress)
  \/ \E total \in 1..MaxUnits : \E done \in 0..total : AggregateUnits(done, total)

SpecAgg == InitAgg /\ [][NextAgg]_vars

(***************************************************************************)
(* The server around one job: the request handlers of the analysis routes, *)
(* the socket.io handlers and the cleanup timers, next to the pipeline.    *)
(***************************************************************************)
\* the server is up, no client has joined a room and no request was made
InitServer ==
  /\ pc = "idle"
  /\ concurrency = 1
  /\ frameTimestamps = <<>>
  /\ i = 0
  /\ workers = <<>>
  /\ tasks = <<>>
  /\ extractedFrames = <<>>
  /\ completed = 0
  /\ analysisState =
       [status |-> "processing", currentStage |-> "initialization", progress |-> 0,
        stages |-> InitialStages]
  /\ g = 0
  /\ gpt4Analysis = <<>>
  /\ events = <<>>
  /\ progressCalls = <<>>
  /\ slotWrites = <<>>
  /\ invoked = [s \in StageSet |-> 0]
  /\ resultDocs = <<>>
  /\ failure = NoFailure
  /\ emitted = <<>>
  /\ inbox = [s \in Sockets |-> <<>>]
  /\ rooms = [s \in Sockets |-> {}]
  /\ joinedAt = [s \in Sockets |-> NeverJoined]
  /\ responses = <<>>
  /\ timers = <<>>
  /\ frameFiles = {}
  /\ errorLog = <<>>
  /\ statusLog = <<>>
  /\ videoId = "v1"
  /\ matchMetadata = MetadataOf("u1")
  /\ resumeFromStage = Undefined
  /\ parked = <<>>
  /\ starting = <<>>
  /\ turns = 0
  /\ aggStages = NoAgg
  /\ aggUpdate = NoUpdate
  /\ aggUnits = <<0, 0>>
  /\ aggResult = 0

\* startAnalysisJob: the response is sent and processVideoBackground is
\* scheduled with setImmediate
startAnalysisJob ==
  /\ pc = "idle"
  /\ responses' = Append(responses, JobStarted(videoId))
  /\ pc' = "start"
  /\ UNCHANGED <<concurrency, jobVars, frameTimestamps, i, workers, tasks, extractedFrames,
                 completed, analysisState, g, gpt4Analysis, events, progressCalls,
                 slotWrites, invoked, resultDocs, failure, aggVars, emitted, inbox,
                 rooms, joinedAt, timers, frameFiles, errorLog, statusLog>>

\* socket.on('join-analysis', analysisId): the socket joins the room
JoinAnalysis(s, v) ==
  /\ Room(v) \notin rooms[s]
  /\ Cardinality(rooms[s]) < MaxRooms
  /\ rooms' = [rooms EXCEPT ![s] = @ \cup {Room(v)}]
  /\ joinedAt' = [joinedAt EXCEPT ![s] = (Room(v) :> Len(emitted)) @@ @]
  /\ UNCHANGED <<pipelineVars, aggVars, emitted, inbox, responses, timers, frameFiles,
                 errorLog, statusLog>>

CancelledEvent == [type |-> "analysis-cancelled", payload |-> [status |-> "cancelled"]]

CancelResponse(v) ==
  [route |-> "cancel", videoId |-> v, code |-> 200,
   body |-> [success |-> TRUE, status |-> "cancelled",
             message |-> "Analysis cancelled successfully"]]

\* the cancel requests served
Cancels == SelectSeq(responses, LAMBDA r : r.route = "cancel")

\* a cancel that makes the pipeline stop where it is
CancelStopsPipeline(v) ==
  /\ Len(Cancels) < MaxCancels
  /\ Broadcast(Room(v), <<CancelledEvent>>)
  /\ timers' = Append(timers, CleanupTimer(v, CancelCleanupDelay, "cancel"))
  /\ responses' = Append(responses, CancelResponse(v))
  /\ pc' = IF v = videoId /\ pc \notin {"idle", "done", "failed"} THEN "cancelled" ELSE pc
  /\ UNCHANGED <<concurrency, jobVars, frameTimestamps, i, workers, tasks, extractedFrames,
                 completed, analysisState, g, gpt4Analysis, events, progressCalls,
                 slotWrites, invoked, resultDocs, failure, aggVars, rooms, joinedAt,
                 frameFiles, errorLog, statusLog>>

\* POST /cancel/:videoId: analysis-cancelled is emitted to the room of the
\* video, the cleanup timer is set and the response sent
Cancel(v) ==
  /\ Len(Cancels) < MaxCancels
  /\ Broadcast(Room(v), <<CancelledEvent>>)
  /\ timers' = Append(timers, CleanupTimer(v, CancelCleanupDelay, "cancel"))
  /\ responses' = Append(responses, CancelResponse(v))
  /\ UNCHANGED <<pipelineVars, aggVars, rooms, joinedAt, frameFiles, errorLog, statusLog>>

\* timers without its n-th entry
RemoveAt(seq, n) == SubSeq(seq, 1, n - 1) \o SubSeq(seq, n + 1, Len(seq))

\* what cleanupTempFiles logs in its catch block
CleanupError(v) == [message |-> "Error during cleanup", videoId |-> v]

\* the frames/<v>/ files in storage
FramesOf(v) == {f \in frameFiles : f[2] = v}

\* a cleanup timer fired and bucket.getFiles of cleanupTempFiles resolved:
\* the deletes of the files listed are started
CleanupLists(n) ==
  /\ n \in DOMAIN timers
  /\ timers[n].phase = "set"
  /\ timers' = [timers EXCEPT ![n].phase = "deleting",
                              ![n].files = FramesOf(timers[n].videoId)]
  /\ UNCHANGED <<pipelineVars, aggVars, emitted, inbox, quietVars, frameFiles>>

\* a cleanup timer fired and bucket.getFiles rejected: cleanupTempFiles
\* logs the error and returns
CleanupListFails(n) ==
  /\ n \in DOMAIN timers
  /\ timers[n].phase = "set"
  /\ timers' = RemoveAt(timers, n)
  /\ errorLog' = Append(errorLog, CleanupError(timers[n].videoId))
  /\ UNCHANGED <<pipelineVars, aggVars, emitted, inbox, rooms, joinedAt, responses,
                 frameFiles, statusLog>>

\* a failed cleanup that reports the failure to the clients of the job
CleanupDeleteFailsEscalates(n, deleted) ==
  /\ n \in DOMAIN timers
  /\ timers[n].phase = "deleting"
  /\ deleted \subseteq timers[n].files
  /\ deleted # timers[n].files
  /\ frameFiles' = frameFiles \ deleted
  /\ timers' = RemoveAt(timers, n)
  /\ errorLog' = Append(errorLog, CleanupError(timers[n].videoId))
  /\ Broadcast(Room(timers[n].videoId),
               <<ErrorEvent(analysisState, "Error during cleanup")>>)
  /\ UNCHANGED <<pipelineVars, aggVars, rooms, joinedAt, responses, statusLog>>

\* every delete of the cleanup resolved
CleanupDeletes(n) ==
  /\ n \in DOMAIN timers
  /\ timers[n].phase = "deleting"
  /\ frameFiles' = frameFiles \ timers[n].files
  /\ timers' = RemoveAt(timers, n)
  /\ UNCHANGED <<pipelineVars, aggVars, emitted, inbox, quietVars>>

\* a delete of the cleanup rejected, the files of `deleted` were deleted:
\* cleanupTempFiles logs the error and returns
CleanupDeleteFails(n, deleted) ==
  /\ n \in DOMAIN timers
  /\ timers[n].phase = "deleting"
  /\ deleted \subseteq timers[n].files
  /\ deleted # timers[n].files
  /\ frameFiles' = frameFiles \ deleted
  /\ timers' = RemoveAt(timers, n)
  /\ errorLog' = Append(errorLog, CleanupError(timers[n].videoId))
  /\ UNCHANGED <<pipelineVars, aggVars, emitted, inbox, rooms, joinedAt, responses, statusLog>>

\* the documents saved as results/<v>/analysis.json, in order: the last one
\* is the one in storage
ResultsOf(v) == SelectSeq(resultDocs, LAMBDA doc : doc.videoId = v)

\* what getAnalysisStatus answers for video v; `outcome` says which of its
\* storage calls failed, if any (fileExists answers false when it fails)
getAnalysisStatus(v, outcome) ==
  LET analysisExists == ResultsOf(v) # <<>> /\ outcome # "exists fails" IN
  IF analysisExists
  THEN IF outcome = "download fails"
       THEN [route |-> "status", videoId |-> v, code |-> 500,
             body |-> [success |-> FALSE, error |-> "Failed to download analysis result"]]
       ELSE [route |-> "status", videoId |-> v, code |-> 200,
             body |-> [success |-> TRUE, status |-> "completed",
                       result |-> ResultsOf(v)[Len(ResultsOf(v))]]]
  ELSE [route |-> "status", videoId |-> v, code |-> 200,
        body |-> [success |-> TRUE, status |-> "not_found",
                  message |-> "Analysis not found or still processing"]]

StatusOutcomes == {"ok", "exists fails", "download fails"}

\* a status request whose response carries the number of the request
StatusNumbered(v, outcome) ==
  /\ Len(statusLog) < MaxStatusCalls
  /\ responses' = Append(responses,
                    [getAnalysisStatus(v, outcome) EXCEPT !.code = @ + Len(statusLog)])
  /\ statusLog' = Append(statusLog,
                    [videoId |-> v, outcome |-> outcome, pc |-> pc, docs |-> resultDocs,
                     response |-> [getAnalysisStatus(v, outcome) EXCEPT
                                     !.code = @ + Len(statusLog)]])
  /\ UNCHANGED <<pipelineVars, aggVars, emitted, inbox, rooms, joinedAt, timers,
                 frameFiles, errorLog>>

\* GET /status/:videoId
Status(v, outcome) ==
  /\ Len(statusLog) < MaxStatusCalls
  /\ responses' = Append(responses, getAnalysisStatus(v, outcome))
  /\ statusLog' = Append(statusLog,
                    [videoId |-> v, outcome |-> outcome, pc |-> pc, docs |-> resultDocs,
                     response |-> getAnalysisStatus(v, outcome)])
  /\ UNCHANGED <<pipelineVars, aggVars, emitted, inbox, rooms, joinedAt, timers,
                 frameFiles, errorLog>>

\* a step of the pipeline of the job the server runs
Pipeline ==
  \/ StartPipeline
  \/ SignedUrlReturns
  \/ SignedUrlFails
  \/ \E d \in ServerDurations : DurationReturns(d)
  \/ DurationFails
  \/ \E w \in 1..MaxWorkers + 1 : AttemptSucceeds(w)
  \/ \E w \in 1..MaxWorkers + 1, uploaded \in BOOLEAN : AttemptFails(w, uploaded)
  \/ \E w \in 1..MaxWorkers + 1 : BackoffElapsed(w)
  \/ RunnerResolves
  \/ FrameAnalyzed
  \/ DelayElapsed
  \/ SummaryReturns
  \/ SummaryFails
  \/ EnhancementReturns
  \/ EnhancementFails
  \/ ReportReturns
  \/ UploadReturns
  \/ UploadFails

\* the job with its requests and cleanup timers
NextServer ==
  \/ startAnalysisJob
  \/ \E v \in VideoIds : Cancel(v)
  \/ \E n \in 1..MaxCancels + 1 : CleanupLists(n)
  \/ \E n \in 1..MaxCancels + 1 : CleanupListFails(n)
  \/ \E n \in 1..MaxCancels + 1 : CleanupDeletes(n)
  \/ \E n \in 1..MaxCancels + 1, deleted \in SUBSET frameFiles : CleanupDeleteFails(n, deleted)
  \/ Pipeline

SpecServer == InitServer /\ [][NextServer]_vars

\* the job with the clients of the rooms
NextRooms ==
  \/ startAnalysisJob
  \/ \E s \in Sockets, v \in VideoIds : JoinAnalysis(s, v)
  \/ \E v \in VideoIds : Cancel(v)
  \/ Pipeline

SpecRooms == InitServer /\ [][NextRooms]_vars

\* the job with the polling callers
NextStatus ==
  \/ startAnalysisJob
  \/ \E v \in VideoIds, outcome \in StatusOutcomes : Status(v, outcome)
  \/ Pipeline

SpecStatus == InitServer /\ [][NextStatus]_vars

\* the job with its requests, when every call the pipeline awaits settles
\* and the event loop runs every continuation that is ready; a request
\* comes when its client sends it, or never
NextLive ==
  \/ startAnalysisJob
  \/ \E v \in VideoIds : Cancel(v)
  \/ Pipeline

SpecLive == InitServer /\ [][NextLive]_vars /\ WF_vars(Pipeline)

(***************************************************************************)
(* Several calls of processVideoBackground: POST /start with its quota,    *)
(* POST /resume, and the event loop turning from one call to another.      *)
(* The variables of the pipeline are the locals of the call that is        *)
(* followed; `parked` holds the locals of the other calls.                 *)
(***************************************************************************)
\* the videos in storage under videos/<videoId>/
Videos == VideoIds

\* the video ids a start or resume request names
RequestIds == VideoIds \cup {"v0"}

\* the stages a resume request names as fromStage
ResumeStages == {"frame_extraction", "gpt4_analysis"}

\* the result documents of this month that storage holds for a user from
\* earlier runs, for videos other than VideoIds
EarlierDocs == MONTHLY_QUOTA - 1

\* what is local to one call of processVideoBackground (with the calls it
\* awaits: extractFrames, runConcurrent, analyzeFrames) and what it emitted
localVars ==
  <<pc, videoId, matchMetadata, resumeFromStage, frameTimestamps, i, workers, tasks,
    extractedFrames, completed, analysisState, g, gpt4Analysis, events, progressCalls,
    slotWrites, invoked, failure>>

\* the locals of the call that is followed
Locals ==
  [pc |-> pc, videoId |-> videoId, matchMetadata |-> matchMetadata,
   resumeFromStage |-> resumeFromStage, frameTimestamps |-> frameTimestamps,
   i |-> i, workers |-> workers, tasks |-> tasks,
   extractedFrames |-> extractedFrames, completed |-> completed,
   analysisState |-> analysisState, g |-> g, gpt4Analysis |-> gpt4Analysis,
   events |-> events, progressCalls |-> progressCalls, slotWrites |-> slotWrites,
   invoked |-> invoked, failure |-> failure]

\* the locals of a call that startAnalysisJob scheduled with setImmediate
NewCall(body) ==
  [pc |-> "start", videoId |-> body.videoId, matchMetadata |-> body.matchMetadata,
   resumeFromStage |-> body.resumeFromStage, frameTimestamps |-> <<>>,
   i |-> 0, workers |-> <<>>, tasks |-> <<>>, extractedFrames |-> <<>>,
   completed |-> 0,
   analysisState |-> [status |-> "processing", currentStage |-> "initialization",
                      progress |-> 0, stages |-> InitialStages],
   g |-> 0, gpt4Analysis |-> <<>>, events |-> <<>>, progressCalls |-> <<>>,
   slotWrites |-> <<>>, invoked |-> [s \in StageSet |-> 0], failure |-> NoFailure]

\* a call followed with the completed counter of the call followed before,
\* as if the counter were a variable of the module
FollowSharedCounter(call) ==
  /\ pc' = call.pc
  /\ videoId' = call.videoId
  /\ matchMetadata' = call.matchMetadata
  /\ resumeFromStage' = call.resumeFromStage
  /\ frameTimestamps' = call.frameTimestamps
  /\ i' = call.i
  /\ workers' = call.workers
  /\ tasks' = call.tasks
  /\ extractedFrames' = call.extractedFrames
  /\ completed' = completed
  /\ analysisState' = call.analysisState
  /\ g' = call.g
  /\ gpt4Analysis' = call.gpt4Analysis
  /\ events' = call.events
  /\ progressCalls' = call.progressCalls
  /\ slotWrites' = call.slotWrites
  /\ invoked' = call.invoked
  /\ failure' = call.failure

\* the call that is followed from now on: its locals are the ones the
\* steps of the pipeline read and write
Follow(call) ==
  /\ pc' = call.pc
  /\ videoId' = call.videoId
  /\ matchMetadata' = call.matchMetadata
  /\ resumeFromStage' = call.resumeFromStage
  /\ frameTimestamps' = call.frameTimestamps
  /\ i' = call.i
  /\ workers' = call.workers
  /\ tasks' = call.tasks
  /\ extractedFrames' = call.extractedFrames
  /\ completed' = call.completed
  /\ analysisState' = call.analysisState
  /\ g' = call.g
  /\ gpt4Analysis' = call.gpt4Analysis
  /\ events' = call.events
  /\ progressCalls' = call.progressCalls
  /\ slotWrites' = call.slotWrites
  /\ invoked' = call.invoked
  /\ failure' = call.failure

\* the requests made so far: answered, or waiting in POST /start
RequestsMade == Len(responses) + Len(starting)

\* startAnalysisJob called with a request body: the response is sent and a
\* call of processVideoBackground scheduled, whatever calls are running;
\* of the body it reads videoId, videoFileName and matchMetadata only
LaunchJob(body) ==
  /\ responses' = Append(responses, JobStarted(body.videoId))
  /\ IF pc = "idle"
     THEN /\ Follow(NewCall(body))
          /\ UNCHANGED parked
     ELSE /\ parked' = Append(parked, NewCall(body))
          /\ UNCHANGED localVars

\* the event loop runs a continuation of another call next
Turn(k) ==
  /\ k \in DOMAIN parked
  /\ pc # "idle"
  /\ parked[k].pc \notin {"done", "failed"}
  /\ IF pc \in {"done", "failed"}
     THEN UNCHANGED turns
     ELSE /\ turns < MaxTurns
          /\ turns' = turns + 1
  /\ Follow(parked[k])
  /\ parked' = [parked EXCEPT ![k] = Locals]
  /\ UNCHANGED <<concurrency, resultDocs, starting, aggVars, serverVars>>

\* the result documents in storage that POST /start counts for user u:
\* those of this month whose matchMetadata names the user
QuotaUsed(u) ==
  EarlierDocs +
    Cardinality({v \in VideoIds :
                   /\ ResultsOf(v) # <<>>
                   /\ ResultsOf(v)[Len(ResultsOf(v))].matchMetadata.userId = u})

StartRejected(v, code, error) ==
  [route |-> "start", videoId |-> v, code |-> code,
   body |-> [success |-> FALSE, error |-> error]]

\* POST /start from the request to the await of the video listing: the
\* body is checked, the result documents are listed and read, and the
\* user's count is compared with the quota
StartCounts(v, u) ==
  /\ RequestsMade < MaxRuns
  /\ IF v = Undefined
     THEN /\ responses' = Append(responses,
                            StartRejected(v, 400, "videoId is required"))
          /\ UNCHANGED starting
     ELSE IF u = Undefined
     THEN /\ responses' = Append(responses,
                            StartRejected(v, 401,
                              "userId or userEmail required for quota enforcement"))
          /\ UNCHANGED starting
     ELSE IF QuotaUsed(u) >= MONTHLY_QUOTA
     THEN /\ responses' = Append(responses,
                            StartRejected(v, 403, "Monthly quota exceeded"))
          /\ UNCHANGED starting
     ELSE /\ starting' = Append(starting,
                           [videoId |-> v, userId |-> u, quotaUsed |-> QuotaUsed(u)])
          /\ UNCHANGED responses
  /\ UNCHANGED <<localVars, parked, turns, concurrency, resultDocs, aggVars, emitted,
                 inbox, rooms, joinedAt, timers, frameFiles, errorLog, statusLog>>

\* POST /start from the video listing on: Video not found, or
\* startAnalysisJob is called with the request's videoId and matchMetadata
StartLaunches(n) ==
  /\ n \in DOMAIN starting
  /\ starting' = RemoveAt(starting, n)
  /\ IF starting[n].videoId \notin Videos
     THEN /\ responses' = Append(responses,
                            StartRejected(starting[n].videoId, 404, "Video not found"))
          /\ UNCHANGED <<localVars, parked>>
     ELSE LaunchJob([videoId |-> starting[n].videoId,
                     matchMetadata |-> MetadataOf(starting[n].userId),
                     resumeFromStage |-> Undefined])
  /\ UNCHANGED <<turns, concurrency, resultDocs, aggVars, emitted, inbox, rooms,
                 joinedAt, timers, frameFiles, errorLog, statusLog>>

AlreadyCompleted(v) ==
  [route |-> "resume", videoId |-> v, code |-> 200,
   body |-> [success |-> TRUE, status |-> "already_completed",
             message |-> "Analysis already completed"]]

\* POST /resume/:videoId: Video not found, or Analysis already completed
\* when the result document exists, or startAnalysisJob is called with
\* resumeFromStage and an empty matchMetadata (the three reads of storage
\* of the handler are taken at one moment)
Resume(v, fromStage) ==
  /\ RequestsMade < MaxRuns
  /\ IF v \notin Videos
     THEN /\ responses' = Append(responses,
                            [StartRejected(v, 404, "Video not found") EXCEPT
                               !.route = "resume"])
          /\ UNCHANGED <<localVars, parked>>
     ELSE IF ResultsOf(v) # <<>>
     THEN /\ responses' = Append(responses, AlreadyCompleted(v))
          /\ UNCHANGED <<localVars, parked>>
     ELSE LaunchJob([videoId |-> v, matchMetadata |-> NoMetadata,
                     resumeFromStage |-> fromStage])
  /\ UNCHANGED <<turns, concurrency, resultDocs, starting, aggVars, emitted, inbox,
                 rooms, joinedAt, timers, frameFiles, errorLog, statusLog>>

\* the calls of processVideoBackground made so far, the followed one first
Calls == IF pc = "idle" THEN parked ELSE <<Locals>> \o parked

\* the server with its start and resume routes and the calls they launch
NextJobs ==
  \/ \E v \in RequestIds \cup {Undefined}, u \in Users \cup {Undefined} : StartCounts(v, u)
  \/ \E n \in 1..MaxRuns : StartLaunches(n)
  \/ \E v \in RequestIds, fromStage \in ResumeStages : Resume(v, fromStage)
  \/ \E k \in 1..MaxRuns : Turn(k)
  \/ Pipeline

SpecJobs == InitServer /\ [][NextJobs]_vars

(***************************************************************************)
(* Properties of the fan-out (runConcurrent, extractFrames).               *)
(***************************************************************************)
\* the task closures started and not yet settled
InFlight == {k \in DOMAIN tasks : tasks[k].status \in {"attempting", "backoff"}}

Terminal(k) == tasks[k].status \in {"ok", "failed"}

\* runConcurrent was called and its promise has resolved
RunnerReturned == frameTimestamps # <<>> /\ pc # "s1_run"

IsFailureRecord(r) == r # Hole /\ r.fileName = Null /\ r.url = Null /\ r.error # Null

IsSuccessRecord(r) == r # Hole /\ r.fileName # Null /\ r.url # Null /\ r.error = Null

\* C1: with a worker budget W >= 1, never more than W task closures are in
\* flight, and runConcurrent has resolved only when every task is terminal
C1_BoundedInFlight ==
  concurrency >= 1 =>
    /\ Cardinality(InFlight) <= concurrency
    /\ RunnerReturned => \A k \in DOMAIN tasks : Terminal(k)

\* the budget was binding (more tasks than workers), tasks ended both ways
\* and runConcurrent has resolved
C1_Witness ==
  /\ concurrency >= 1
  /\ Len(tasks) > concurrency
  /\ RunnerReturned
  /\ \E k \in DOMAIN tasks : tasks[k].status = "ok"
  /\ \E k \in DOMAIN tasks : tasks[k].status = "failed"

\* C2: when extractFrames has returned (W >= 1), the array has exactly N
\* slots, slot k holds the record of the k-th timestamp, no slot is empty
\* (a success record, or a failure record with the error of the last
\* attempt), and each slot was assigned exactly once, by one worker
C2_SlotsComplete ==
  (concurrency >= 1 /\ RunnerReturned) =>
    /\ ArrayLength(extractedFrames) = Len(frameTimestamps)
    /\ \A k \in DOMAIN extractedFrames :
         /\ extractedFrames[k] # Hole
         /\ extractedFrames[k].frameNumber = k
         /\ extractedFrames[k].timestamp = frameTimestamps[k]
         /\ \/ tasks[k].status = "ok" /\ IsSuccessRecord(extractedFrames[k])
            \/ /\ tasks[k].status = "failed"
               /\ IsFailureRecord(extractedFrames[k])
               /\ extractedFrames[k].error = AttemptError(k, tasks[k].attempt)
         /\ Len(slotWrites[k]) = 1

\* extractFrames returned four records, of which a later unit was stored
\* before an earlier one finished (the earlier one was retried), by two workers
C2_Witness ==
  /\ concurrency = 2
  /\ RunnerReturned
  /\ Len(frameTimestamps) = 4
  /\ tasks[1].attempt = 3 /\ tasks[1].status = "ok"
  /\ tasks[2].attempt = 1 /\ tasks[4].status = "failed"
  /\ slotWrites[1] # slotWrites[2]

\* one step of the attempt counters and the slots of the frame units
C3_AttemptStep ==
  /\ \A k \in DOMAIN tasks' :
       /\ tasks'[k].status = "failed" => tasks'[k].attempt = RETRY_LIMIT + 1
       /\ IsFailureRecord(extractedFrames'[k]) =>
            /\ tasks'[k].attempt = RETRY_LIMIT + 1
            /\ extractedFrames'[k].error = AttemptError(k, RETRY_LIMIT + 1)
       /\ tasks'[k].status = "ok" => tasks'[k].attempt \in 1..RETRY_LIMIT + 1
  /\ \A k \in DOMAIN tasks :
       /\ tasks[k].status = "ok" =>
            tasks'[k] = tasks[k] /\ extractedFrames'[k] = extractedFrames[k]
       /\ tasks'[k].attempt \in {tasks[k].attempt, tasks[k].attempt + 1}
       /\ tasks'[k].attempt = tasks[k].attempt + 1 => tasks'[k].status = "attempting"

\* C3: a unit whose attempts all fail is attempted exactly RETRY_LIMIT + 1
\* times before its slot is marked failed; a unit that succeeds on attempt
\* n is attempted exactly n times: attempts are numbered 1, 2, ... as they
\* start, a failure record is stored by attempt RETRY_LIMIT + 1 only, a
\* unit ends failed only after that attempt, and nothing of a unit that
\* succeeded changes afterwards
C3_RetryLimit == [][C3_AttemptStep]_vars

\* one unit failed after its third attempt, another succeeded on its second
C3_Witness ==
  /\ \E k \in DOMAIN tasks :
       tasks[k].status = "failed" /\ tasks[k].attempt = RETRY_LIMIT + 1
  /\ \E k \in DOMAIN tasks : tasks[k].status = "ok" /\ tasks[k].attempt = 2

\* C4: a unit that fails all its attempts does not make extractFrames throw
\* and does not abort or skip its siblings: once units run, the only
\* failures of stage 1 are those of the calls before them, and when
\* runConcurrent has resolved every unit was attempted and is terminal,
\* the failed ones with their error in their own slot
C4_FailureIsolated ==
  (concurrency >= 1 /\ \E k \in DOMAIN tasks : tasks[k].status = "failed") =>
    /\ failure.at \notin {"s1_url", "s1_probe", "s1_check"}
    /\ RunnerReturned =>
         \A k \in DOMAIN tasks :
           /\ tasks[k].attempt >= 1
           /\ Terminal(k)
           /\ tasks[k].status = "failed" =>
                /\ IsFailureRecord(extractedFrames[k])
                /\ extractedFrames[k].error = tasks[k].lastError
           /\ tasks[k].status = "ok" => IsSuccessRecord(extractedFrames[k])

\* the first unit failed for good while units were still waiting, and the
\* later units ran and succeeded
C4_Witness ==
  /\ concurrency = 1
  /\ RunnerReturned
  /\ Len(tasks) >= 3
  /\ tasks[1].status = "failed"
  /\ \A k \in 2..Len(tasks) : tasks[k].status = "ok"
  /\ pc = "s2_frame"

\* the updates reported by the frame tasks
FrameCalls == SelectSeq(progressCalls, LAMBDA u : u.stage = "frame_extraction")

\* C5: when the fan-out has finished (W >= 1), the progress callback was
\* called once per unit, failed units included, and the last call
\* reported N of N completed
C5_CallbackPerUnit ==
  (concurrency >= 1 /\ RunnerReturned) =>
    /\ Len(FrameCalls) = Len(frameTimestamps)
    /\ FrameCalls[Len(FrameCalls)].message =
         <<"Extracted frame", Len(frameTimestamps), Len(frameTimestamps)>>

(***************************************************************************)
(* Properties of the progress aggregation.                                 *)
(***************************************************************************)
\* the analysis-progress snapshots emitted so far, in order
Snapshots == SelectSeq(events, LAMBDA e : e.type = "analysis-progress")

\* C6: the overall progress of the successive analysis-progress snapshots
\* of one pipeline execution never decreases
C6_ProgressMonotone ==
  \A a \in DOMAIN Snapshots : \A b \in DOMAIN Snapshots :
    a < b => Snapshots[a].payload.progress <= Snapshots[b].payload.progress

\* a unit failed for good, and the snapshots rose within stage 1, from
\* stage 1 to stage 2 and within stage 2
C6_Witness ==
  /\ \E k \in DOMAIN tasks : tasks[k].status = "failed"
  /\ \E a \in DOMAIN Snapshots : \E b \in DOMAIN Snapshots : \E c \in DOMAIN Snapshots :
       \E d \in DOMAIN Snapshots :
       /\ a < b /\ b < c /\ c < d
       /\ Snapshots[a].payload.currentStage = "frame_extraction"
       /\ Snapshots[b].payload.currentStage = "frame_extraction"
       /\ Snapshots[c].payload.currentStage = "gpt4_analysis"
       /\ Snapshots[d].payload.currentStage = "gpt4_analysis"
       /\ 0 < Snapshots[a].payload.progress
       /\ Snapshots[a].payload.progress < Snapshots[b].payload.progress
       /\ Snapshots[b].payload.progress < Snapshots[c].payload.progress
       /\ Snapshots[c].payload.progress < Snapshots[d].payload.progress

\* 5 of 10 frame units are completed and no later stage has progressed
FiveOfTen ==
  /\ aggUnits = <<5, 10>>
  /\ \A s \in StageSet \ {"frame_extraction"} : aggStages[s].progress = 0

\* C7 (as claimed): with 5 of 10 frame units completed and no later stage
\* started, the overall progress is exactly 12
C7_OverallIsTwelve == FiveOfTen => aggResult = 12

\* C7 (amended): with 5 of 10 frame units completed (stage progress 50) and
\* no later stage started, the overall progress is exactly 13, the value
\* Math.round gives 12.5
C7_OverallIsThirteen ==
  FiveOfTen => aggUpdate.progress = 50 /\ aggResult = 13

\* the update of 5 of 10 met a stored stage progress of 40 (4 of 10)
C7_Witness ==
  /\ FiveOfTen
  /\ aggStages["frame_extraction"].progress = 40
  /\ aggResult = 13

\* the progress the aggregate counts for stage s
CountedProgress(stages, update, s) ==
  IF update # NoUpdate /\ update.stage = s THEN update.progress
  ELSE IF s \in DOMAIN stages THEN stages[s].progress
  ELSE 0

RECURSIVE SumOver(_, _)
SumOver(f, S) ==
  IF S = {} THEN 0
  ELSE LET x == CHOOSE y \in S : TRUE IN f[x] + SumOver(f, S \ {x})

\* the sum of weight * progress over the stages of the weight table
WeightedSum(stages, update) ==
  SumOver([s \in StageSet |-> WeightOf(s) * CountedProgress(stages, update, s)], StageSet)

TotalWeight == SumOver([s \in StageSet |-> WeightOf(s)], StageSet)

\* n / d rounded to the nearest integer, halves upwards
RoundedQuotient(n, d) == (2 * n + d) \div (2 * d)

FailedStage ==
  CASE failure.at \in {"s1_url", "s1_probe", "s1_check"} -> "frame_extraction"
    [] failure.at \in {"s2_frame", "s2_summary"} -> "gpt4_analysis"
    [] failure.at = "s3_enhance" -> "claude_enhancement"
    [] failure.at = "s4_upload" -> "final_report"

LaterStages(stage) == {s \in StageSet : StageIndex(s) > StageIndex(stage)}

Untouched(stages, s) == stages[s].status = "pending" /\ stages[s].progress = 0

\* C9: when the pipeline has failed at stage k, no adapter of a later stage
\* was invoked, the records of the later stages are pending with progress
\* 0 in the job state and in every snapshot emitted, and the failure event,
\* the last event, names stage k and carries the error's message
C9_FailureStops ==
  pc = "failed" =>
    /\ \A s \in LaterStages(FailedStage) :
         /\ invoked[s] = 0
         /\ Untouched(analysisState.stages, s)
         /\ \A n \in DOMAIN Snapshots : Untouched(Snapshots[n].payload.stages, s)
    /\ invoked[FailedStage] = 1
    /\ LET last == events[Len(events)] IN
         /\ last.type = "analysis-error"
         /\ last.payload.status = "failed"
         /\ last.payload.currentStage = FailedStage
         /\ last.payload.error = failure.error
    /\ \A n \in 1..Len(events) - 1 : events[n].type = "analysis-progress"

\* the pipeline failed in stage 2, after stage 1 and the frame analyses
C9_Witness ==
  /\ pc = "failed"
  /\ failure.at = "s2_summary"
  /\ analysisState.stages["frame_extraction"].status = "completed"
  /\ Len(gpt4Analysis) = Len(frameTimestamps)

\* C10: when every frame unit has failed for good (W >= 1), the job ends
\* failed at frame_extraction: analysis-error is emitted, no later stage
\* is invoked and no result document is written
C10_NoFramesFails ==
  (/\ concurrency >= 1
   /\ RunnerReturned
   /\ \A k \in DOMAIN tasks : tasks[k].status = "failed") =>
    /\ \A s \in LaterStages("frame_extraction") : invoked[s] = 0
    /\ resultDocs = <<>>
    /\ pc \in {"failed", "done"} =>
         /\ pc = "failed"
         /\ FailedStage = "frame_extraction"
         /\ events[Len(events)].type = "analysis-error"

(***************************************************************************)
(* Properties of completion and of the result document.                    *)
(***************************************************************************)
AllStagesCompleted(stages) ==
  \A s \in StageSet : stages[s].status = "completed" /\ stages[s].progress = 100

IsCompletion(e) == e.type = "analysis-completed"

IsFailure(e) == e.type = "analysis-error"

\* C11: an analysis-completed event is emitted only when all four stage
\* records are completed with progress 100 and the result document is in
\* storage, and it carries that document; when persisting the document
\* failed, analysis-error is emitted and no analysis-completed
C11_CompletionAfterPersist ==
  /\ \A n \in DOMAIN events :
       IsCompletion(events[n]) =>
         /\ AllStagesCompleted(analysisState.stages)
         /\ AllStagesCompleted(events[n].payload.result.analysis_state.stages)
         /\ resultDocs # <<>>
         /\ events[n].payload.result = resultDocs[Len(resultDocs)]
         /\ events[n].payload.status = "completed"
  /\ failure.at = "s4_upload" =>
       /\ IsFailure(events[Len(events)])
       /\ \A n \in DOMAIN events : ~IsCompletion(events[n])

\* the job completed although a frame unit had failed for good, and its
\* completion event is the last event
C11_Witness ==
  /\ pc = "done"
  /\ IsCompletion(events[Len(events)])
  /\ \E k \in DOMAIN tasks : tasks[k].status = "failed"
  /\ \E k \in DOMAIN tasks : tasks[k].status = "ok"

\* C12: an execution writes the result document at most once, and only at
\* its completed transition, after the final stage; an execution that
\* ended with a failure event has written no document
C12_ResultWrittenOnce ==
  /\ Len(resultDocs) <= 1
  /\ resultDocs # <<>> =>
       /\ pc = "done"
       /\ analysisState.status = "completed"
       /\ resultDocs[1].analysis_state.stages["final_report"].status = "completed"
  /\ (pc = "failed" \/ \E n \in DOMAIN events : IsFailure(events[n])) =>
       resultDocs = <<>>

\* the execution failed when it persisted its document, after all stages
C12_Witness ==
  /\ pc = "failed"
  /\ failure.at = "s4_upload"
  /\ AllStagesCompleted(analysisState.stages)
  /\ resultDocs = <<>>

(***************************************************************************)
(* Properties of cleanup and of cancellation                               *)
(***************************************************************************)

\* C13: a cleanup that fails is only logged: the step that logs it emits no
\* event, leaves the job's status and stage records as they were (a
\* completed job stays completed) and leaves the result document unchanged
C13_CleanupFailureOnlyLogged ==
  [][errorLog' # errorLog =>
       /\ emitted' = emitted
       /\ inbox' = inbox
       /\ events' = events
       /\ analysisState' = analysisState
       /\ pc' = pc
       /\ failure' = failure
       /\ resultDocs' = resultDocs]_vars

\* the cleanup after the cancel and the cleanup after the completion both
\* failed, and the job is completed with its result document
C13_Witness ==
  /\ Len(errorLog) = 2
  /\ timers = <<>>
  /\ pc = "done"
  /\ analysisState.status = "completed"
  /\ Len(resultDocs) = 1
  /\ IsCompletion(events[Len(events)])
  /\ frameFiles # {}

\* the places in `emitted` of the events of this type sent to the room of v
EmittedAt(v, type) ==
  {n \in DOMAIN emitted : emitted[n].room = Room(v) /\ emitted[n].event.type = type}

\* C14: a cancel request is advisory: the step that serves it emits
\* analysis-cancelled to the room of the video and sets the cleanup timer
\* with the cancel delay, and it leaves the pipeline where it was, with its
\* position, its stage records and the result document untouched, so the
\* pipeline goes on to run its remaining stages
C14_CancelAdvisory ==
  [][Cancels' # Cancels =>
       \E v \in VideoIds :
         /\ emitted' = Append(emitted, [room |-> Room(v), event |-> CancelledEvent])
         /\ timers' = Append(timers, CleanupTimer(v, CancelCleanupDelay, "cancel"))
         /\ responses' = Append(responses, CancelResponse(v))
         /\ pipelineVars' = pipelineVars
         /\ frameFiles' = frameFiles]_vars

\* a client of the job's room received analysis-cancelled after the job had
\* emitted progress and, later, the analysis-completed of the same job
C14_Witness ==
  /\ pc = "done"
  /\ analysisState.status = "completed"
  /\ \E n \in EmittedAt(videoId, "analysis-cancelled"),
        m \in EmittedAt(videoId, "analysis-completed") :
       /\ n < m
       /\ \E k \in 1..n - 1 : emitted[k].event.type = "analysis-progress"
  /\ \E s \in Sockets :
       /\ Len(inbox[s]) >= 2
       /\ \E a \in DOMAIN inbox[s] :
            /\ inbox[s][a].type = "analysis-cancelled"
            /\ a < Len(inbox[s])
       /\ IsCompletion(inbox[s][Len(inbox[s])])

(***************************************************************************)
(* Properties of the rooms                                                 *)
(***************************************************************************)

\* the job's own snapshots: progress, completion, failure
IsSnapshot(e) == e.type \in {"analysis-progress", "analysis-completed", "analysis-error"}

\* the places in `emitted` of the snapshots of job v emitted before socket s
\* joined the room of v
SnapshotsBeforeJoin(s, v) ==
  {n \in 1..joinedAt[s][Room(v)] : emitted[n].room = Room(v) /\ IsSnapshot(emitted[n].event)}

Max(S) == CHOOSE x \in S : \A y \in S : y <= x

\* C15: a socket that joined the room of a job that had emitted snapshots
\* was sent the latest of them on joining, so it is the first thing in its
\* inbox from that room; after the completion that is the completed snapshot
C15_SnapshotOnJoin ==
  \A s \in Sockets, v \in VideoIds :
    (Room(v) \in rooms[s] /\ SnapshotsBeforeJoin(s, v) # {}) =>
      /\ inbox[s] # <<>>
      /\ \E a \in DOMAIN inbox[s] :
           inbox[s][a] = emitted[Max(SnapshotsBeforeJoin(s, v))].event

\* what io delivered to socket s: the events emitted to a room after s
\* joined it, in order
Delivered(s) ==
  LET numbered == [n \in DOMAIN emitted |-> [n |-> n, m |-> emitted[n]]]
      mine == SelectSeq(numbered,
                LAMBDA x : x.m.room \in rooms[s] /\ x.n > joinedAt[s][x.m.room])
  IN [k \in DOMAIN mine |-> mine[k].m.event]

\* C16: every event emitted for a job reached every socket that was in the
\* job's room when it was emitted and no other socket, and a socket that
\* joined later was sent none of the earlier events
C16_DeliveredToSubscribers == \A s \in Sockets : inbox[s] = Delivered(s)

\* socket 1 joined the job's room after the first events and received only
\* the later ones, up to the completion; socket 2, in the room of another
\* video, received only that video's cancellation
C16_Witness ==
  /\ pc = "done"
  /\ Room(videoId) \in rooms[1]
  /\ joinedAt[1][Room(videoId)] >= 2
  /\ inbox[1] # <<>>
  /\ Len(inbox[1]) < Len(events)
  /\ IsCompletion(inbox[1][Len(inbox[1])])
  /\ rooms[2] = {Room("v2")}
  /\ inbox[2] = <<CancelledEvent>>

(***************************************************************************)
(* Properties of the supervisor: submit and status                         *)
(***************************************************************************)

\* C17: when the submit request has been answered and the pipeline has not
\* taken a step, no event has been emitted, no stage has been invoked and
\* the job is there to be seen in status pending
C17_SubmitPending ==
  pc = "start" =>
    /\ events = <<>>
    /\ emitted = <<>>
    /\ \A st \in StageSet : invoked[st] = 0
    /\ getAnalysisStatus(videoId, "ok").body.status = "pending"

\* the places in `events` of the terminal events of the job
TerminalPlaces == {n \in DOMAIN events : IsCompletion(events[n]) \/ IsFailure(events[n])}

JobStatus(at) ==
  CASE at = "done" -> {"completed"}
    [] at = "failed" -> {"failed"}
    [] at = "start" -> {"pending", "processing"}
    [] OTHER -> {"processing"}

\* C19: a status request that storage served reflects the status the job
\* had when it was made, and answers not_found only for an identifier that
\* was never submitted
C19_StatusReflectsJob ==
  \A n \in DOMAIN statusLog :
    statusLog[n].outcome = "ok" =>
      IF statusLog[n].videoId = videoId /\ statusLog[n].pc # "idle"
      THEN statusLog[n].response.body.status \in JobStatus(statusLog[n].pc)
      ELSE statusLog[n].response.body.status = "not_found"

C22_RunnerRaisesOnBadBudget ==
  /\ (concurrency <= 0 /\ RunnerReturned) => failure.at = "s1_run"
  /\ (concurrency >= 1 /\ frameTimestamps # <<>>) => failure.at # "s1_run"

\* the events a step appends to `events`
NewEvents == SubSeq(events', Len(events) + 1, Len(events'))

\* C23: a snapshot that names a stage as the current one carries that
\* stage's record as processing or completed, never as pending, and a stage
\* record becomes completed only from processing
C23_ProcessingBeforeSnapshot ==
  [][/\ \A n \in DOMAIN NewEvents :
          (/\ NewEvents[n].type = "analysis-progress"
           /\ NewEvents[n].payload.currentStage \in StageSet) =>
            NewEvents[n].payload.stages[NewEvents[n].payload.currentStage].status
              # "pending"
     /\ \A s \in StageSet :
          (/\ analysisState'.stages[s].status = "completed"
           /\ analysisState.stages[s].status # "completed") =>
            analysisState.stages[s].status = "processing"]_vars

\* the place of a value of currentStage in the order of the pipeline
StageRank(s) == IF s = "initialization" THEN 0 ELSE StageIndex(s)

\* C24: the snapshots carry currentStage in the order of the pipeline and
\* never an earlier stage after a later one, the job's own currentStage is
\* the last stage whose adapter was invoked, no adapter is invoked twice,
\* and a stage's adapter is invoked only when the stage before it was
\* invoked and its record is completed with progress 100
C24_StagesInOrder ==
  /\ \A m, n \in DOMAIN Snapshots :
       m < n => StageRank(Snapshots[m].payload.currentStage)
                  <= StageRank(Snapshots[n].payload.currentStage)
  /\ \A n \in DOMAIN Snapshots :
       StageRank(Snapshots[n].payload.currentStage)
         <= StageRank(analysisState.currentStage)
  /\ \A s \in StageSet : invoked[s] <= 1
  /\ StageRank(analysisState.currentStage)
       = Cardinality({s \in StageSet : invoked[s] = 1})
  /\ \A n \in 2..Len(Stages) :
       invoked[Stages[n]] = 1 =>
         /\ invoked[Stages[n - 1]] = 1
         /\ analysisState.stages[Stages[n - 1]].status = "completed"
         /\ analysisState.stages[Stages[n - 1]].progress = 100

\* the job completed: every adapter was invoked once, both reporting stages
\* reported, and the snapshots went through all five values of currentStage
C24_Witness ==
  /\ pc = "done"
  /\ \A s \in StageSet : invoked[s] = 1
  /\ {progressCalls[n].stage : n \in DOMAIN progressCalls}
       = {"frame_extraction", "gpt4_analysis"}
  /\ {Snapshots[n].payload.currentStage : n \in DOMAIN Snapshots}
       = StageSet \cup {"initialization"}

\* C27: wherever the job's state is recorded or published with status
\* completed its overall progress is 100: in the job's state object, in the
\* analysis_state of the persisted result document and in the one the
\* completion event carries
C27_CompletedIsFull ==
  /\ analysisState.status = "completed" => analysisState.progress = 100
  /\ \A n \in DOMAIN resultDocs :
       resultDocs[n].analysis_state.status = "completed" =>
         resultDocs[n].analysis_state.progress = 100
  /\ \A n \in DOMAIN events :
       (/\ IsCompletion(events[n])
        /\ events[n].payload.result.analysis_state.status = "completed") =>
         events[n].payload.result.analysis_state.progress = 100

(***************************************************************************)
(* Properties of the terminal job and of the deferred cleanup              *)
(***************************************************************************)

\* the emits a step appends to `emitted`
NewEmits == SubSeq(emitted', Len(emitted) + 1, Len(emitted'))

\* C25: once the completion event of the job has been emitted the job does
\* not change any more and no cancelled, failure or progress event is
\* emitted to the room of the job, whatever request arrives
C25_ImmutableOnceCompleted ==
  [][(\E n \in DOMAIN events : IsCompletion(events[n])) =>
       /\ analysisState' = analysisState
       /\ resultDocs' = resultDocs
       /\ \A n \in DOMAIN NewEmits :
            NewEmits[n].room = Room(videoId) =>
              NewEmits[n].event.type \notin
                {"analysis-cancelled", "analysis-error", "analysis-progress"}]_vars

\* C29: a frame file of the job leaves storage only when the pipeline of
\* the job has emitted its terminal event, never while a stage is in
\* flight, and a step that deletes frames leaves the result documents alone
C29_CleanupAfterTerminal ==
  [][~(frameFiles \subseteq frameFiles') =>
       /\ pc \in {"done", "failed"}
       /\ TerminalPlaces # {}
       /\ resultDocs' = resultDocs]_vars

(***************************************************************************)
(* Properties of several calls: resume, concurrent jobs, the quota         *)
(***************************************************************************)

\* C21: a call that a resume request launched executes no stage before the
\* fromStage of the request, and the first stage it executes is that stage
C21_ResumeFromStage ==
  \A n \in DOMAIN Calls :
    Calls[n].resumeFromStage # Undefined =>
      /\ \A s \in StageSet :
           Calls[n].invoked[s] > 0 =>
             StageIndex(s) >= StageIndex(Calls[n].resumeFromStage)
      /\ (\E s \in StageSet : Calls[n].invoked[s] > 0) =>
           Calls[n].invoked[Calls[n].resumeFromStage] > 0

\* the call is the only one made for its video
OwnVideo(n) == \A m \in DOMAIN Calls : m # n => Calls[m].videoId # Calls[n].videoId

\* the events emitted to the room of video v, in order
RoomStream(v) ==
  LET es == SelectSeq(emitted, LAMBDA e : e.room = Room(v))
  IN  [n \in DOMAIN es |-> es[n].event]

\* the progress snapshots among the events of a call
SnapshotsOf(c) == SelectSeq(c.events, LAMBDA e : e.type = "analysis-progress")

\* C26: a call that runs next to calls for other videos has the state it
\* would have alone: its completed counter counts its own successful
\* slots, its slots hold its own frames, the stage record of its last
\* update and its progress are what its own callbacks left, the room of
\* its video was sent its events and no others, and storage holds under
\* its video only its frames and its result
C26_NoInterference ==
  \A n \in DOMAIN Calls :
    OwnVideo(n) =>
      LET c == Calls[n] IN
      /\ c.completed =
           Cardinality({k \in DOMAIN c.extractedFrames :
                          IsSuccessRecord(c.extractedFrames[k])})
      /\ c.completed = Len(SelectSeq(c.progressCalls,
                                     LAMBDA u : u.stage = "frame_extraction"))
      /\ \A k \in DOMAIN c.extractedFrames :
           /\ IsSuccessRecord(c.extractedFrames[k]) =>
                c.extractedFrames[k].fileName = <<"frame", c.videoId, k>>
           /\ Len(c.slotWrites[k]) <= 1
      /\ c.progressCalls # <<>> =>
           LET u == c.progressCalls[Len(c.progressCalls)] IN
           /\ c.analysisState.stages[u.stage] \in
                {[status |-> "processing", progress |-> u.progress,
                  message |-> u.message],
                 [status |-> "completed", progress |-> 100]}
           /\ \/ c.analysisState.status = "completed"
              \/ c.analysisState.progress =
                   SnapshotsOf(c)[Len(SnapshotsOf(c))].payload.progress
      /\ RoomStream(c.videoId) = c.events
      /\ FramesOf(c.videoId) \subseteq
           {<<"frame", c.videoId, k>> : k \in DOMAIN c.frameTimestamps}
      /\ Len(ResultsOf(c.videoId)) = (IF c.pc = "done" THEN 1 ELSE 0)
      /\ c.pc = "done" =>
           /\ ResultsOf(c.videoId)[1].frame_extraction.frame_details = c.extractedFrames
           /\ ResultsOf(c.videoId)[1].analysis_state.stages = c.analysisState.stages

\* two jobs for different videos ran to completion, the second one from
\* its start to its end while the first was in its pipeline, and each
\* extracted its frame
C26_Witness ==
  /\ Len(Calls) = 2
  /\ Calls[1].videoId # Calls[2].videoId
  /\ turns = 1
  /\ \A n \in {1, 2} : Calls[n].pc = "done" /\ Calls[n].completed = 1
  /\ emitted[1].room = emitted[Len(emitted)].room
  /\ \E n \in DOMAIN emitted : emitted[n].room # emitted[1].room

\* C28: no two calls for the same video are in flight at once, and the
\* result document of a video is saved once at most
C28_OneExecutionPerVideo ==
  /\ \A m, n \in DOMAIN Calls :
       (m # n /\ Calls[m].videoId = Calls[n].videoId) =>
         \/ Calls[m].pc \in {"done", "failed"}
         \/ Calls[n].pc \in {"done", "failed"}
  /\ \A v \in VideoIds : Len(ResultsOf(v)) <= 1

\* C30: the result documents of one user of this month never number more
\* than MONTHLY_QUOTA, and a start request that finds the count at
\* MONTHLY_QUOTA or above does not go on to launch a pipeline
C30_QuotaEnforced ==
  /\ \A u \in Users : QuotaUsed(u) <= MONTHLY_QUOTA
  /\ \A n \in DOMAIN starting : starting[n].quotaUsed < MONTHLY_QUOTA
====
